---- MODULE Spec2Model ----
(***************************************************************************)
(* Model of the pull-up repetition counter of pullup-vision-pro:           *)
(* VisionEngine (app/services/vision_engine.py), the per-frame state       *)
(* machine that classifies the exercise phase from pose landmarks and      *)
(* counts repetitions; VideoProcessor.procesar_video                       *)
(* (app/services/video_processor.py), which feeds it the frames of a       *)
(* video; and the endpoint analisar_video (app/api/endpoints.py).          *)
(*                                                                         *)
(* Coordinates are MediaPipe's normalised floats.  They are modelled as    *)
(* integers in units of 0.005 (1.0 = 200), so that the mean of two         *)
(* coordinates drawn from even values is exact.  Angles are in degrees.    *)
(***************************************************************************)
EXTENDS Integers, Sequences, FiniteSets, TLC

VARIABLES
    umbral_alto,                        \* self.umbral_alto
    umbral_bajo,                        \* self.umbral_bajo
    en_posicion_alta,                   \* self.en_posicion_alta (the latch)
    contador_repeticiones,              \* self.contador_repeticiones
    frame_count,                        \* self.frame_count
    ultima_fase,                        \* self.ultima_fase
    historial_repeticiones,             \* self.historial_repeticiones
    angulo_actual,                      \* self.angulo_actual
    altura_actual,                      \* self.altura_actual
    angulo_maximo_durante_repeticion,   \* self.angulo_maximo_durante_repeticion
    angulo_minimo_durante_repeticion,   \* self.angulo_minimo_durante_repeticion
    op,                                 \* the operation that produced this state
    entrada,                            \* the pose result the last procesar_frame call got
    ret,                                \* what the last procesar_frame call returned
    llamadas,                           \* the results of the procesar_frame calls since the last reset()
    frame,                              \* the pose result of the last call, where the driver records it
    angulos,                            \* the elbow angle of each call since the last reset(), where recorded
    stats,                              \* the dictionaries obtener_estadisticas has returned (the last one)
    pet,                                \* the HTTP requests: position in analisar_video and its locals
    activo,                             \* the request the event loop is running, 0 when idle
    disco,                              \* the requests whose upload is in the upload directory
    valor,                              \* what the last direct call of a geometry method returned
    video                               \* a run of procesar_video whose progress is observed

\* the engine and what its calls returned
motor == <<umbral_alto, umbral_bajo, en_posicion_alta, contador_repeticiones,
           frame_count, ultima_fase, historial_repeticiones, angulo_actual,
           altura_actual, angulo_maximo_durante_repeticion,
           angulo_minimo_durante_repeticion, op, entrada, ret, llamadas>>

\* the web application around the engine
web == <<pet, activo, disco>>

\* what the callers of the geometry methods and of the progress callback see
aux == <<valor, video>>

vars == <<motor, frame, angulos, stats, web, aux>>

sesion == <<en_posicion_alta, contador_repeticiones, frame_count, ultima_fase,
            historial_repeticiones, angulo_actual, altura_actual,
            angulo_maximo_durante_repeticion, angulo_minimo_durante_repeticion>>

----------------------------------------------------------------------------
(* Bounds of the model *)

\* procesar_frame calls explored per session
MaxLlamadas == 6
\* procesar_frame calls explored per session when the thresholds vary
MaxLlamadasCfg == 3
\* procesar_frame calls explored per session among direct calls of the API
MaxLlamadasApi == 2
\* procesar_frame calls explored per session among reads of the statistics
MaxLlamadasEst == 3
\* procesar_frame calls explored per session when elbow angles vary
MaxLlamadasAng == 5
\* frames of an uploaded video
MaxFramesVideo == 3
\* analysis requests sent to the server
NumPeticiones == 2
\* frames read from a video whose progress is observed
MaxFramesProg == 60

----------------------------------------------------------------------------
(* Program constants, in units of 0.005 *)

\* default umbral_alto = 0.20
UmbralAltoDefecto == 40
\* default umbral_bajo = 0.30
UmbralBajoDefecto == 60
\* detectar_fase needs the 33 landmarks of MediaPipe Pose
MinLandmarksFase == 33
\* calcular_altura_hombros needs landmarks 11 and 12
MinLandmarksAltura == 13
\* calcular_angulo_codo needs landmarks 11, 13 and 15
MinLandmarksAngulo == 17
\* altura returned for a short landmark list (0.5)
AlturaPorDefecto == 100
\* angle returned when it cannot be computed (180.0)
AnguloExtendido == 180

Fases == {"ALTO", "BAJO", "TRANSICION", "SIN_DETECCION"}

----------------------------------------------------------------------------
(* Inputs: what self.pose.process(frame_rgb) gives for one frame *)

\* y of a shoulder landmark: 0.15, 0.25, 0.35; the means of two of them
\* are 0.15, 0.20, 0.25, 0.30 and 0.35
Ys == {30, 50, 70}
\* y of a shoulder landmark in a long session: the means are 0.15, 0.25, 0.35
YsSesion == {30, 70}
\* x of the left shoulder (not used by the classifier)
HombroX == 100
\* elbow relative to the left shoulder: coincident, or hanging below it
DesplCodo == {<<0, 0>>, <<0, 20>>}
\* elbow relative to the left shoulder in a long session
DesplCodoSesion == {<<0, 20>>}
\* wrist relative to the elbow: straight arm, right angle
DesplMuneca == {<<0, 20>>, <<20, 0>>}
\* lengths of the landmark list
Longitudes == {0, 20, 33}

\* visibility of a landmark MediaPipe is sure of (0.9), in units of 0.01
VisibilidadAlta == 90
\* visibility of a landmark MediaPipe is not sure of (0.3)
VisibilidadBaja == 30

\* min_detection_confidence = 0.5, the only confidence the engine is given
ConfianzaMinima == 50

\* visibilities of the left and of the right landmarks of a pose
Visibilidades ==
    {<<VisibilidadAlta, VisibilidadAlta>>, <<VisibilidadBaja, VisibilidadAlta>>,
     <<VisibilidadBaja, VisibilidadBaja>>}

\* A frame in which no person is detected (pose_landmarks is None)
SinPose == [pose |-> FALSE, n |-> 0, l11 |-> <<0, 0>>, l12 |-> <<0, 0>>,
            l13 |-> <<0, 0>>, l15 |-> <<0, 0>>,
            l14 |-> <<0, 0>>, l16 |-> <<0, 0>>,
            v_izq |-> 0, v_der |-> 0]

\* A landmark list too short to hold the landmarks the engine reads
PoseCorta(n) == [pose |-> TRUE, n |-> n, l11 |-> <<0, 0>>, l12 |-> <<0, 0>>,
                 l13 |-> <<0, 0>>, l15 |-> <<0, 0>>,
                 l14 |-> <<0, 0>>, l16 |-> <<0, 0>>,
                 v_izq |-> VisibilidadAlta, v_der |-> VisibilidadAlta]

\* A full landmark list: left shoulder, right shoulder, left elbow, left
\* wrist; the right arm (landmarks 14 and 16) is held like the left one and
\* every landmark is clearly visible
PoseCompleta(y11, y12, dc, dm) ==
    [pose |-> TRUE, n |-> 33,
     l11 |-> <<HombroX, y11>>,
     l12 |-> <<HombroX + 40, y12>>,
     l13 |-> <<HombroX + dc[1], y11 + dc[2]>>,
     l15 |-> <<HombroX + dc[1] + dm[1], y11 + dc[2] + dm[2]>>,
     l14 |-> <<HombroX + 40 + dc[1], y12 + dc[2]>>,
     l16 |-> <<HombroX + 40 + dc[1] + dm[1], y12 + dc[2] + dm[2]>>,
     v_izq |-> VisibilidadAlta, v_der |-> VisibilidadAlta]

\* A full landmark list whose right wrist is at dmd from the right elbow and
\* whose left and right landmarks have visibilities vi and vd
PoseBilateral(y11, y12, dc, dm, dmd, vi, vd) ==
    [PoseCompleta(y11, y12, dc, dm) EXCEPT
       !.l16 = <<HombroX + 40 + dc[1] + dmd[1], y12 + dc[2] + dmd[2]>>,
       !.v_izq = vi,
       !.v_der = vd]

\* the shape of a pose result: no pose, a short list, a full list
Clase(f) ==
    IF ~f.pose THEN "sin_pose"
    ELSE IF f.n < MinLandmarksFase THEN "corta"
    ELSE "completa"

\* the pose results with shoulders at heights of ys and elbows at dcs
FramesDe(ys, dcs) ==
    {SinPose}
    \cup {PoseCorta(n) : n \in Longitudes \ {33}}
    \cup {PoseCompleta(y11, y12, dc, dm) :
            y11 \in ys, y12 \in ys, dc \in dcs, dm \in DesplMuneca}

\* the pose results fed to an engine whose thresholds vary
Frames == FramesDe(Ys, DesplCodo)

\* the pose results fed in a long session
FramesSesion == FramesDe(YsSesion, DesplCodoSesion)

\* the pose results whose two sides differ in arm position and visibility
FramesApi ==
    {SinPose}
    \cup {PoseCorta(n) : n \in Longitudes \ {33}}
    \cup {PoseBilateral(y11, y12, <<0, 20>>, <<0, 20>>, dmd, v[1], v[2]) :
            y11 \in YsSesion, y12 \in YsSesion, dmd \in DesplMuneca,
            v \in Visibilidades}

\* wrist relative to the elbow: straight arm, right angle, folded arm
DesplMunecaAng == {<<0, 20>>, <<20, 0>>, <<0, -20>>}

\* the pose results whose elbow angle is 180, 90 or 0 degrees
FramesAng ==
    {SinPose, PoseCorta(20)}
    \cup {PoseCompleta(y, y, <<0, 20>>, dm) :
            y \in YsSesion, dm \in DesplMunecaAng}

\* lengths of the landmark lists handed to the geometry methods: around
\* the 13 and the 17 they test for
LongitudesGeo == {0, 12, 13, 16, 17, 33}

\* wrist relative to the elbow: on the elbow, and at 180, 90, 0, 135 and
\* 45 degrees of an upper arm that hangs
DesplMunecaGeo ==
    {<<0, 0>>, <<0, 20>>, <<20, 0>>, <<0, -20>>, <<20, 20>>, <<20, -20>>}

\* a landmark list of n entries; the landmarks at n and beyond are not in
\* the list
PoseDeLongitud(n, y11, y12, dc, dm) ==
    [PoseCompleta(y11, y12, dc, dm) EXCEPT !.n = n]

\* the landmark lists handed to the geometry methods
FramesGeo ==
    {PoseDeLongitud(n, y11, y12, dc, dm) :
        n \in LongitudesGeo, y11 \in Ys, y12 \in Ys,
        dc \in DesplCodo, dm \in DesplMunecaGeo}

\* the pose results of the frames of an uploaded video
FramesVideo ==
    {SinPose}
    \cup {PoseCompleta(y, y, <<0, 20>>, <<0, 20>>) : y \in YsSesion}

----------------------------------------------------------------------------
(* HTTP requests *)

\* the requests, by number
Peticiones == 1..NumPeticiones

\* the path given to the decorator of analisar_video
RutaDecorada == <<"api", "v1", "analizar">>

\* the prefix under which main.py includes the router
Prefijo == <<"api", "v1">>

\* the path at which analisar_video is served
RutaRegistrada == Prefijo \o RutaDecorada

\* the paths clients post to
Caminos == {RutaDecorada, RutaRegistrada}

\* settings.ALLOWED_VIDEO_TYPES
TiposPermitidos == {"mp4", "mov", "avi"}

\* file.filename.split(".")[-1].lower() of the uploaded files
Extensiones == {"mp4", "txt"}

\* a request that has not arrived
PeticionNueva ==
    [pc |-> "nueva", camino |-> <<>>, ext |-> "", status |-> 0,
     escrito |-> FALSE, reinicio |-> FALSE, cuadros |-> 0, contadas |-> 0,
     exito |-> FALSE, repeticiones |-> 0, historial |-> 0,
     cap |-> "sin_abrir", writer |-> "sin_abrir"]

\* "frame_actual % 30 == 0": progress is reported every 30 frames
IntervaloProgreso == 30

\* what CAP_PROP_FRAME_COUNT reports for a video: nothing, or 15, 30 or
\* 60 frames, whatever the number of frames that can be read
TotalesDeclarados == {0, 15, 30, 60}

\* the pose results of a video whose progress is observed; the progress
\* does not depend on what the frames show
FramesProg == {SinPose}

\* no video is being processed
VideoCerrado ==
    [pc |-> "cerrado", total_frames |-> 0, frame_actual |-> 0,
     progresos |-> <<>>, exito |-> FALSE, error |-> ""]

----------------------------------------------------------------------------
(* Geometry *)

\* Raised ZeroDivisionError, as a value no angle can take
ErrorDivision == -1

\* a maximum that never takes the new value
Max_primero(a, b) == a

Max(a, b) == IF a >= b THEN a ELSE b
\* a minimum that never takes the new value
Min_primero(a, b) == a

Min(a, b) == IF a <= b THEN a ELSE b

\* math.degrees(math.acos(max(-1.0, min(1.0, dot / (mag1 * mag2))))), where
\* prod2 = (mag1 * mag2)^2; the inputs of the model give cosines whose
\* angle is a multiple of 45 degrees.  Division by zero raises.
AcosGrados(dot, prod2) ==
    IF prod2 = 0 THEN ErrorDivision
    ELSE CASE dot * dot >= prod2 /\ dot > 0     -> 0
           [] dot * dot >= prod2 /\ dot < 0     -> 180
           [] dot = 0                           -> 90
           [] 2 * dot * dot = prod2 /\ dot > 0  -> 45
           [] 2 * dot * dot = prod2 /\ dot < 0  -> 135

\* the angle computed without the zero-length guard
VectorNulo_sinGuarda(mag1sq, mag2sq) == FALSE

\* a guard that only looks at the ray from the elbow to the shoulder
VectorNulo_soloHombro(mag1sq, mag2sq) == mag1sq = 0

\* the guard "if mag1 * mag2 == 0"
VectorNulo(mag1sq, mag2sq) == mag1sq * mag2sq = 0

\* VisionEngine.calcular_angulo_codo
calcular_angulo_codo(lm) ==
    IF lm.n < MinLandmarksAngulo THEN AnguloExtendido
    ELSE LET hombro == lm.l11
             codo   == lm.l13
             muneca == lm.l15
             v1     == <<hombro[1] - codo[1], hombro[2] - codo[2]>>
             v2     == <<muneca[1] - codo[1], muneca[2] - codo[2]>>
             dot    == v1[1] * v2[1] + v1[2] * v2[2]
             mag1sq == v1[1] * v1[1] + v1[2] * v1[2]
             mag2sq == v2[1] * v2[1] + v2[2] * v2[2]
         IN  IF VectorNulo(mag1sq, mag2sq) THEN AnguloExtendido
             ELSE AcosGrados(dot, mag1sq * mag2sq)

\* a height read from the left shoulder alone
calcular_altura_hombros_soloIzquierdo(lm) ==
    IF lm.n < MinLandmarksAltura THEN AlturaPorDefecto
    ELSE lm.l11[2]

\* VisionEngine.calcular_altura_hombros
calcular_altura_hombros(lm) ==
    IF lm.n < MinLandmarksAltura THEN AlturaPorDefecto
    ELSE (lm.l11[2] + lm.l12[2]) \div 2

----------------------------------------------------------------------------
(* Phase classifier *)

\* a guard that only rejects an absent or empty list
LandmarksInsuficientes_soloVacio(lm) == lm.n = 0

\* the guard "if not landmarks or len(landmarks) < 33"
LandmarksInsuficientes(lm) == lm.n = 0 \/ lm.n < MinLandmarksFase

\* the threshold rule with inclusive comparisons
ClasificarAltura_inclusiva(altura, alto, bajo) ==
    IF altura <= alto THEN "ALTO"
    ELSE IF altura >= bajo THEN "BAJO"
    ELSE "TRANSICION"

\* the threshold rule at the end of detectar_fase
ClasificarAltura(altura, alto, bajo) ==
    IF altura < alto THEN "ALTO"
    ELSE IF altura > bajo THEN "BAJO"
    ELSE "TRANSICION"

\* VisionEngine.detectar_fase: the phase it returns and the values it leaves
\* in altura_actual, angulo_actual and the two angle accumulators
detectar_fase(lm) ==
    IF LandmarksInsuficientes(lm)
    THEN [fase |-> "SIN_DETECCION", excepcion |-> FALSE,
          altura |-> altura_actual, angulo |-> angulo_actual,
          amax |-> angulo_maximo_durante_repeticion,
          amin |-> angulo_minimo_durante_repeticion]
    ELSE LET altura == calcular_altura_hombros(lm)
             angulo == calcular_angulo_codo(lm)
         IN  IF angulo = ErrorDivision
             THEN [fase |-> "SIN_DETECCION", excepcion |-> TRUE,
                   altura |-> altura_actual, angulo |-> angulo_actual,
                   amax |-> angulo_maximo_durante_repeticion,
                   amin |-> angulo_minimo_durante_repeticion]
             ELSE [fase |-> ClasificarAltura(altura, umbral_alto, umbral_bajo),
                   excepcion |-> FALSE,
                   altura |-> altura, angulo |-> angulo,
                   amax |-> Max(angulo_maximo_durante_repeticion, angulo),
                   amin |-> Min(angulo_minimo_durante_repeticion, angulo)]

----------------------------------------------------------------------------
(* Repetition state machine *)

\* a reset that seeds the last phase with a neutral value
EstadoReset_faseNeutra == <<FALSE, 0, 0, "SIN_DETECCION", <<>>, 0, 0, 0, 180>>

\* the values VisionEngine.reset assigns, in the order of sesion
EstadoReset == <<FALSE, 0, 0, "BAJO", <<>>, 0, 0, 0, 180>>

\* the session fields of a state that will hold the tuple s
Asignar(s) ==
    /\ en_posicion_alta' = s[1]
    /\ contador_repeticiones' = s[2]
    /\ frame_count' = s[3]
    /\ ultima_fase' = s[4]
    /\ historial_repeticiones' = s[5]
    /\ angulo_actual' = s[6]
    /\ altura_actual' = s[7]
    /\ angulo_maximo_durante_repeticion' = s[8]
    /\ angulo_minimo_durante_repeticion' = s[9]

\* the guard "if not resultados.pose_landmarks"
PoseAusente(f) == ~f.pose

\* a rising edge that does not look at the previous phase
EsFlancoSubida_sinPrevia(fase, ultima) == fase = "ALTO"

\* "fase == ALTO and self.ultima_fase in [BAJO, TRANSICION]"
EsFlancoSubida(fase, ultima) ==
    fase = "ALTO" /\ ultima \in {"BAJO", "TRANSICION"}

\* a latch that TRANSICION clears as well
LiberaPosicion_conTransicion(fase) == fase \in {"BAJO", "TRANSICION"}

\* a latch that nothing clears
LiberaPosicion_nunca(fase) == FALSE

\* "if fase == BAJO: self.en_posicion_alta = False"
LiberaPosicion(fase) == fase = "BAJO"

\* a record stamped with the frame count after the increment
Repeticion_indiceSiguiente(num, amax, amin, ts) ==
    [repeticion |-> num, angulo_maximo |-> amax, angulo_minimo |-> amin,
     timestamp |-> ts + 1]

\* a record numbered with the counter before the increment
Repeticion_numeroPrevio(num, amax, amin, ts) ==
    [repeticion |-> num - 1, angulo_maximo |-> amax, angulo_minimo |-> amin,
     timestamp |-> ts]

\* Repeticion(repeticion, angulo_maximo, angulo_minimo, timestamp)
Repeticion(num, amax, amin, ts) ==
    [repeticion |-> num, angulo_maximo |-> amax, angulo_minimo |-> amin,
     timestamp |-> ts]

\* the value of a return statement of procesar_frame
Retorno(nueva, fase) == [nueva |-> nueva, fase |-> fase, excepcion |-> FALSE]

\* an exception leaving procesar_frame
Lanzada == [nueva |-> FALSE, fase |-> "SIN_DETECCION", excepcion |-> TRUE]

\* a reset that leaves the angle accumulators as they are
Reset_conservaAcumuladores ==
    /\ en_posicion_alta' = FALSE
    /\ contador_repeticiones' = 0
    /\ frame_count' = 0
    /\ ultima_fase' = "BAJO"
    /\ historial_repeticiones' = <<>>
    /\ angulo_actual' = 0
    /\ altura_actual' = 0
    /\ op' = "reset"
    /\ llamadas' = <<>>
    /\ UNCHANGED <<umbral_alto, umbral_bajo, entrada, ret,
                   angulo_maximo_durante_repeticion,
                   angulo_minimo_durante_repeticion>>

\* VisionEngine.reset
Reset ==
    /\ Asignar(EstadoReset)
    /\ op' = "reset"
    /\ llamadas' = <<>>
    /\ UNCHANGED <<umbral_alto, umbral_bajo, entrada, ret>>

\* VisionEngine.procesar_frame on the pose result f of one frame
ProcesarFrame(f) ==
    /\ op' = "procesar_frame"
    /\ entrada' = Clase(f)
    /\ UNCHANGED <<umbral_alto, umbral_bajo>>
    /\ IF PoseAusente(f)
       THEN /\ ret' = Retorno(FALSE, "SIN_DETECCION")
            /\ UNCHANGED sesion
       ELSE IF ~f.pose
       THEN \* None has no attribute landmark
            /\ ret' = Lanzada
            /\ UNCHANGED sesion
       ELSE LET d     == detectar_fase(f)
                fase  == d.fase
                nueva == EsFlancoSubida(fase, ultima_fase) /\ ~en_posicion_alta
            IN  IF d.excepcion
                THEN /\ ret' = Lanzada
                     /\ UNCHANGED sesion
                ELSE /\ altura_actual' = d.altura
                     /\ angulo_actual' = d.angulo
                     /\ IF nueva
                        THEN /\ contador_repeticiones' = contador_repeticiones + 1
                             /\ historial_repeticiones' =
                                  Append(historial_repeticiones,
                                         Repeticion(contador_repeticiones + 1,
                                                    d.amax, d.amin, frame_count))
                             /\ angulo_maximo_durante_repeticion' = 0
                             /\ angulo_minimo_durante_repeticion' = 180
                        ELSE /\ angulo_maximo_durante_repeticion' = d.amax
                             /\ angulo_minimo_durante_repeticion' = d.amin
                             /\ UNCHANGED <<contador_repeticiones,
                                            historial_repeticiones>>
                     /\ en_posicion_alta' =
                          IF LiberaPosicion(fase) THEN FALSE
                          ELSE IF nueva THEN TRUE
                          ELSE en_posicion_alta
                     /\ ultima_fase' = fase
                     /\ frame_count' = frame_count + 1
                     /\ ret' = Retorno(nueva, fase)
    /\ llamadas' = Append(llamadas, ret')

\* the driver passes the next frame of the video to the engine
Procesar ==
    \E f \in FramesSesion :
        /\ Len(llamadas) < MaxLlamadas
        /\ ProcesarFrame(f)
        /\ UNCHANGED <<aux, frame, angulos, stats, web>>

ProcesarCfg ==
    \E f \in Frames :
        /\ Len(llamadas) < MaxLlamadasCfg
        /\ ProcesarFrame(f)
        /\ UNCHANGED <<aux, frame, angulos, stats, web>>

\* a caller resets the engine
Reiniciar ==
    /\ Reset
    /\ angulos' = <<>>
    /\ UNCHANGED <<aux, frame, stats, web>>

----------------------------------------------------------------------------
(* Direct calls of the engine's API *)

\* a call of procesar_frame, whose pose result is recorded
ProcesarApi ==
    \E f \in FramesApi :
        /\ Len(llamadas) < MaxLlamadasApi
        /\ ProcesarFrame(f)
        /\ frame' = f
        /\ UNCHANGED <<aux, angulos, stats, web>>

\* VisionEngine.detectar_fase called on the landmark list of f (None when
\* f has no pose), as the tests call it
DetectarFaseDirecto ==
    \E f \in FramesApi :
        LET d == detectar_fase(f)
        IN  /\ op' = "detectar_fase"
            /\ entrada' = Clase(f)
            /\ frame' = f
            /\ ret' = IF d.excepcion THEN Lanzada ELSE Retorno(FALSE, d.fase)
            /\ altura_actual' = d.altura
            /\ angulo_actual' = d.angulo
            /\ angulo_maximo_durante_repeticion' = d.amax
            /\ angulo_minimo_durante_repeticion' = d.amin
            /\ UNCHANGED <<umbral_alto, umbral_bajo, en_posicion_alta,
                           contador_repeticiones, frame_count, ultima_fase,
                           historial_repeticiones, llamadas>>
            /\ UNCHANGED <<aux, angulos, stats, web>>

\* round(angle, 1): the angle in tenths of a degree
RedondearAngulo(a) == 10 * a

\* round(height, 3): the height in thousandths
RedondearAltura(h) == 5 * h

\* the "historial" list obtener_estadisticas builds from the history
HistorialDeEstadisticas(h) ==
    [i \in 1..Len(h) |->
       [repeticion |-> h[i].repeticion,
        angulo_maximo |-> RedondearAngulo(h[i].angulo_maximo),
        angulo_minimo |-> RedondearAngulo(h[i].angulo_minimo)]]

\* statistics that report the frame counter as the repetitions
Estadisticas_cuentaFrames ==
    [repeticiones |-> frame_count,
     fase_actual |-> ultima_fase,
     angulo_actual |-> RedondearAngulo(angulo_actual),
     altura_actual |-> RedondearAltura(altura_actual),
     frames_procesados |-> frame_count,
     historial |-> HistorialDeEstadisticas(historial_repeticiones)]

\* the dictionary VisionEngine.obtener_estadisticas returns
Estadisticas ==
    [repeticiones |-> contador_repeticiones,
     fase_actual |-> ultima_fase,
     angulo_actual |-> RedondearAngulo(angulo_actual),
     altura_actual |-> RedondearAltura(altura_actual),
     frames_procesados |-> frame_count,
     historial |-> HistorialDeEstadisticas(historial_repeticiones)]

\* a call of procesar_frame between calls of obtener_estadisticas
ProcesarEst ==
    \E f \in FramesSesion :
        /\ Len(llamadas) < MaxLlamadasEst
        /\ ProcesarFrame(f)
        /\ UNCHANGED <<aux, frame, angulos, stats, web>>

\* VisionEngine.obtener_estadisticas, its result kept by the caller
obtener_estadisticas ==
    /\ stats' = <<Estadisticas>>
    /\ op' = "obtener_estadisticas"
    /\ UNCHANGED <<umbral_alto, umbral_bajo, sesion, entrada, ret, llamadas>>

\* a caller reads the statistics
ObtenerEstadisticas ==
    /\ obtener_estadisticas
    /\ UNCHANGED <<aux, frame, angulos, web>>

----------------------------------------------------------------------------
(* Direct calls of the geometry methods *)

\* a call of calcular_altura_hombros on a landmark list
CalcularAltura ==
    \E f \in FramesGeo :
        /\ op' = "calcular_altura_hombros"
        /\ frame' = f
        /\ valor' = calcular_altura_hombros(f)
        /\ UNCHANGED <<umbral_alto, umbral_bajo, sesion, entrada, ret,
                       llamadas, angulos, stats, web, video>>

\* a call of calcular_angulo_codo on a landmark list
CalcularAngulo ==
    \E f \in FramesGeo :
        /\ op' = "calcular_angulo_codo"
        /\ frame' = f
        /\ valor' = calcular_angulo_codo(f)
        /\ UNCHANGED <<umbral_alto, umbral_bajo, sesion, entrada, ret,
                       llamadas, angulos, stats, web, video>>

----------------------------------------------------------------------------
(* Sessions observed with the elbow angle of each frame *)

\* the mark of a frame that reached no angle computation
SinAngulo == -2

\* the angle detectar_fase accumulates for the pose result f, if any
AnguloVisto(f) ==
    IF PoseAusente(f) \/ LandmarksInsuficientes(f) THEN SinAngulo
    ELSE calcular_angulo_codo(f)

\* a call of procesar_frame, the angle of whose frame is recorded
ProcesarAng ==
    \E f \in FramesAng :
        /\ Len(llamadas) < MaxLlamadasAng
        /\ ProcesarFrame(f)
        /\ angulos' = Append(angulos, AnguloVisto(f))
        /\ UNCHANGED <<aux, frame, stats, web>>

----------------------------------------------------------------------------
(* VideoProcessor.procesar_video inside the endpoint analisar_video *)

\* a loop that starts or resumes a coroutine while another one runs
BucleLibre_siempre == TRUE

\* the event loop runs no coroutine, so it can start or resume one
BucleLibre == activo = 0

\* the request r is the coroutine the event loop is running
EnEjecucion(r) == activo = r

\* the request r with the fields of c changed
Con(r, c) == [pet EXCEPT ![r] = c]

\* a request arrives: routing, then analisar_video up to "await file.read()"
Llegar(r) ==
    /\ pet[r].pc = "nueva"
    /\ BucleLibre
    /\ \E c \in Caminos, e \in Extensiones :
          LET p == [pet[r] EXCEPT !.camino = c, !.ext = e]
          IN  pet' = Con(r,
                IF c # RutaRegistrada
                THEN [p EXCEPT !.pc = "respondida", !.status = 404]
                ELSE IF e \notin TiposPermitidos
                THEN [p EXCEPT !.pc = "respondida", !.status = 400]
                ELSE [p EXCEPT !.pc = "leyendo"])
    /\ UNCHANGED <<aux, motor, frame, angulos, stats, activo, disco>>

\* analisar_video resumes after the read: size check, then the upload is
\* written to the upload directory
Continuar(r) ==
    /\ pet[r].pc = "leyendo"
    /\ BucleLibre
    /\ \E grande \in BOOLEAN :
          IF grande
          THEN /\ pet' = Con(r, [pet[r] EXCEPT !.pc = "respondida",
                                               !.status = 400])
               /\ UNCHANGED <<activo, disco>>
          ELSE /\ pet' = Con(r, [pet[r] EXCEPT !.pc = "guardado",
                                               !.escrito = TRUE])
               /\ disco' = disco \cup {r}
               /\ activo' = r
    /\ UNCHANGED <<aux, motor, frame, angulos, stats>>

\* a procesar_video that does not reset the engine
PvReset_omitido == UNCHANGED <<aux, motor, frame, angulos, stats>>

\* "self.engine.reset()" at the start of procesar_video
PvReset ==
    /\ Reset
    /\ angulos' = <<>>
    /\ UNCHANGED <<aux, frame, stats>>

\* what happens between the reset and the loop: the capture does not
\* open, it opens and the writer is created, or it opens and an exception
\* leaves procesar_video before the loop is entered
Aperturas == {"no_abre", "abre", "lanza"}

\* procesar_video up to the loop: the file exists, the engine is reset,
\* the capture is opened and the writer created
IniciarVideo(r) ==
    /\ pet[r].pc = "guardado"
    /\ EnEjecucion(r)
    /\ r \in disco
    /\ PvReset
    /\ \E a \in Aperturas :
          pet' = Con(r,
            CASE a = "abre" ->
                   [pet[r] EXCEPT !.pc = "frames", !.reinicio = TRUE,
                                  !.cap = "abierto", !.writer = "abierto"]
              [] a = "no_abre" ->
                   [pet[r] EXCEPT !.pc = "procesado", !.reinicio = TRUE,
                                  !.exito = FALSE, !.repeticiones = 0]
              [] a = "lanza" ->
                   [pet[r] EXCEPT !.pc = "lanzada", !.reinicio = TRUE,
                                  !.cap = "abierto"])
    /\ UNCHANGED <<activo, disco>>

\* a finally clause that forgets the writer
Liberar_soloCaptura(p) == [p EXCEPT !.cap = "liberado"]

\* the finally clause of procesar_video: cap.release(), writer.release()
Liberar(p) == [p EXCEPT !.cap = "liberado", !.writer = "liberado"]

\* one turn of the loop of procesar_video: a frame is read and processed
CuadroVideo(r) ==
    /\ pet[r].pc = "frames"
    /\ EnEjecucion(r)
    /\ pet[r].cuadros < MaxFramesVideo
    /\ \E f \in FramesVideo : ProcesarFrame(f)
    /\ pet' = Con(r, [pet[r] EXCEPT
                        !.cuadros = @ + 1,
                        !.contadas = IF ret'.nueva THEN @ + 1 ELSE @])
    /\ UNCHANGED <<aux, frame, angulos, stats, activo, disco>>

\* the video ends: the loop breaks and the result takes the statistics
FinVideo(r) ==
    /\ pet[r].pc = "frames"
    /\ EnEjecucion(r)
    /\ obtener_estadisticas
    /\ pet' = Con(r, [Liberar(pet[r]) EXCEPT
                        !.pc = "procesado", !.exito = TRUE,
                        !.repeticiones = stats'[1].repeticiones])
    /\ UNCHANGED <<aux, frame, angulos, activo, disco>>

\* an exception is raised inside the loop: the except clause returns the
\* failure result and the finally clause runs
ErrorEnBucle(r) ==
    /\ pet[r].pc = "frames"
    /\ EnEjecucion(r)
    /\ pet' = Con(r, [Liberar(pet[r]) EXCEPT
                        !.pc = "procesado", !.exito = FALSE,
                        !.repeticiones = 0])
    /\ UNCHANGED <<aux, motor, frame, angulos, stats, activo, disco>>

\* a finally clause that leaves the upload where it is
BorrarSubida_omitido(r) == disco

\* "if os.path.exists(ruta_archivo): os.remove(ruta_archivo)"
BorrarSubida(r) == disco \ {r}

\* analisar_video builds the response from the result and from
\* vision_engine.historial_repeticiones, or answers 500 to an exception,
\* and removes the upload
Responder(r) ==
    /\ pet[r].pc \in {"procesado", "lanzada"}
    /\ EnEjecucion(r)
    /\ pet' = Con(r,
         IF pet[r].pc = "lanzada"
         THEN [pet[r] EXCEPT !.pc = "respondida", !.status = 500]
         ELSE [pet[r] EXCEPT !.pc = "respondida", !.status = 200,
                             !.historial = Len(historial_repeticiones)])
    /\ disco' = BorrarSubida(r)
    /\ activo' = 0
    /\ UNCHANGED <<aux, motor, frame, angulos, stats>>

----------------------------------------------------------------------------
(* The progress reports of procesar_video *)

\* "(frame_actual / total_frames) * 100"; the division raises when
\* total_frames is 0.  The totals of the model divide 100 * frame_actual.
Progreso(fa, tf) == IF tf = 0 THEN ErrorDivision ELSE (fa * 100) \div tf

\* procesar_video up to the loop, on a video that opens: the engine is
\* reset and the frame count of the container is read
AbrirVideoProg ==
    /\ video.pc = "cerrado"
    /\ Reset
    /\ angulos' = <<>>
    /\ \E t \in TotalesDeclarados :
          video' = [VideoCerrado EXCEPT !.pc = "frames", !.total_frames = t]
    /\ UNCHANGED <<frame, stats, web, valor>>

\* one turn of the loop with a progress callback: the frame is processed,
\* counted, and every 30 frames the progress is computed and reported; a
\* division by zero is caught by the except clause, which returns failure
CuadroProg ==
    /\ video.pc = "frames"
    /\ video.frame_actual < MaxFramesProg
    /\ \E f \in FramesProg : ProcesarFrame(f)
    /\ LET fa == video.frame_actual + 1
           p  == Progreso(fa, video.total_frames)
       IN  video' =
             IF fa % IntervaloProgreso # 0
             THEN [video EXCEPT !.frame_actual = fa]
             ELSE IF p = ErrorDivision
             THEN [video EXCEPT !.frame_actual = fa, !.pc = "devuelto",
                                !.exito = FALSE,
                                !.error = "ZeroDivisionError"]
             ELSE [video EXCEPT !.frame_actual = fa,
                                !.progresos = Append(@, p)]
    /\ UNCHANGED <<frame, angulos, stats, web, valor>>

\* the video ends: the loop breaks and the success result is returned
FinProg ==
    /\ video.pc = "frames"
    /\ obtener_estadisticas
    /\ video' = [video EXCEPT !.pc = "devuelto", !.exito = TRUE]
    /\ UNCHANGED <<frame, angulos, web, valor>>

----------------------------------------------------------------------------
(* Specifications *)

\* VisionEngine.__init__ with the thresholds alto and bajo
Construir(alto, bajo) ==
    /\ umbral_alto = alto
    /\ umbral_bajo = bajo
    /\ en_posicion_alta = EstadoReset[1]
    /\ contador_repeticiones = EstadoReset[2]
    /\ frame_count = EstadoReset[3]
    /\ ultima_fase = EstadoReset[4]
    /\ historial_repeticiones = EstadoReset[5]
    /\ angulo_actual = EstadoReset[6]
    /\ altura_actual = EstadoReset[7]
    /\ angulo_maximo_durante_repeticion = EstadoReset[8]
    /\ angulo_minimo_durante_repeticion = EstadoReset[9]
    /\ op = "init"
    /\ entrada = "ninguna"
    /\ ret = Retorno(FALSE, "SIN_DETECCION")
    /\ llamadas = <<>>
    /\ frame = SinPose
    /\ angulos = <<>>
    /\ stats = <<>>
    /\ pet = [r \in Peticiones |-> PeticionNueva]
    /\ activo = 0
    /\ disco = {}
    /\ valor = 0
    /\ video = VideoCerrado

\* the engine of the tests and of the defaults: 0.20 / 0.30
Init == Construir(UmbralAltoDefecto, UmbralBajoDefecto)

Next == Procesar \/ Reiniciar

Spec == Init /\ [][Next]_vars

\* thresholds a caller can pass to the constructor, valid and not
Umbrales == {<<40, 60>>, <<30, 70>>, <<60, 40>>, <<50, 50>>}

InitCfg == \E u \in Umbrales : Construir(u[1], u[2])

NextCfg == ProcesarCfg \/ Reiniciar

SpecCfg == InitCfg /\ [][NextCfg]_vars

\* the engine of the tests, its classifier called directly as the tests do
NextApi == ProcesarApi \/ DetectarFaseDirecto \/ Reiniciar

SpecApi == Init /\ [][NextApi]_vars

\* the geometry methods of the engine of the tests, called on their own
NextGeo == CalcularAltura \/ CalcularAngulo

SpecGeo == Init /\ [][NextGeo]_vars

\* one run of procesar_video with the progress callback of the endpoint
NextProg == AbrirVideoProg \/ CuadroProg \/ FinProg

SpecProg == Init /\ [][NextProg]_vars

\* the engine of the tests, fed arms at several angles
NextAng == ProcesarAng \/ Reiniciar

SpecAng == Init /\ [][NextAng]_vars

\* the server: the module-level engine and processor of endpoints.py
\* answering requests on one event loop
NextWeb ==
    \E r \in Peticiones :
        \/ Llegar(r)
        \/ Continuar(r)
        \/ IniciarVideo(r)
        \/ CuadroVideo(r)
        \/ FinVideo(r)
        \/ ErrorEnBucle(r)
        \/ Responder(r)

SpecWeb == Init /\ [][NextWeb]_vars

\* the engine of the tests, its statistics read at any point
NextEst == ProcesarEst \/ ObtenerEstadisticas \/ Reiniciar

SpecEst == Init /\ [][NextEst]_vars

----------------------------------------------------------------------------
(* Properties of the repetition counter *)

\* the phases returned by the calls of a session, in order
FasesDe(ll) == [i \in 1..Len(ll) |-> ll[i].fase]

\* the frame indices of the records of a history, in order
IndicesDe(h) == [i \in 1..Len(h) |-> h[i].timestamp]

\* a call whose phase is ALTO, reached from BAJO or TRANSICION with the latch clear
Calificante ==
    /\ ret'.fase = "ALTO"
    /\ ultima_fase \in {"BAJO", "TRANSICION"}
    /\ ~en_posicion_alta

\* C1: within a session the counter never decreases; it changes only by +1
\* and only on a call classified ALTO that follows BAJO or TRANSICION with
\* the latch clear, and procesar_frame returns nueva_repeticion = True on
\* exactly those calls.
C1_ContadorMonotono ==
    [][op' = "procesar_frame" =>
         /\ contador_repeticiones' =
              contador_repeticiones + (IF Calificante THEN 1 ELSE 0)
         /\ ret'.nueva = Calificante]_vars

C1_Witness ==
    /\ op = "procesar_frame"
    /\ ret.nueva
    /\ contador_repeticiones = 2

\* C2: two counted repetitions of a session are always separated by a frame
\* classified BAJO; a session without a BAJO frame counts at most once, and
\* the phases [ALTO, TRANSICION, ALTO, TRANSICION, ALTO] count exactly once.
C2_SinDobleConteo ==
    /\ \A i, j \in 1..Len(llamadas) :
         (i < j /\ llamadas[i].nueva /\ llamadas[j].nueva)
           => \E k \in (i + 1)..(j - 1) : llamadas[k].fase = "BAJO"
    /\ (\A k \in 1..Len(llamadas) : llamadas[k].fase # "BAJO")
         => contador_repeticiones <= 1
    /\ FasesDe(llamadas) = <<"ALTO", "TRANSICION", "ALTO", "TRANSICION", "ALTO">>
         => contador_repeticiones = 1

C2_Witness ==
    FasesDe(llamadas) = <<"ALTO", "TRANSICION", "ALTO", "TRANSICION", "ALTO">>

\* C3: from a fresh engine the phases [BAJO, BAJO, ALTO, ALTO, BAJO, ALTO]
\* count exactly 2 repetitions, whose records carry frame indices 2 and 5.
C3_SecuenciaDosRepeticiones ==
    FasesDe(llamadas) = <<"BAJO", "BAJO", "ALTO", "ALTO", "BAJO", "ALTO">>
      => /\ contador_repeticiones = 2
         /\ IndicesDe(historial_repeticiones) = <<2, 5>>

C3_Witness ==
    FasesDe(llamadas) = <<"BAJO", "BAJO", "ALTO", "ALTO", "BAJO", "ALTO">>

\* C4 (as claimed): a call that returns SIN_DETECCION, for an absent pose or
\* for a short landmark list, leaves the counter and the latch unchanged and
\* increases frame_count by exactly 1.
C4_SinDeteccionAvanzaFrame ==
    [][(op' = "procesar_frame" /\ ret'.fase = "SIN_DETECCION") =>
         /\ contador_repeticiones' = contador_repeticiones
         /\ en_posicion_alta' = en_posicion_alta
         /\ frame_count' = frame_count + 1]_vars

\* C5: on a fresh engine a first frame classified ALTO is counted: the count
\* becomes 1 and the record carries frame index 0.
C5_PrimerFrameAltoCuenta ==
    (Len(llamadas) >= 1 /\ llamadas[1].fase = "ALTO")
      => /\ llamadas[1].nueva
         /\ contador_repeticiones >= 1
         /\ historial_repeticiones[1].repeticion = 1
         /\ historial_repeticiones[1].timestamp = 0
         /\ Len(llamadas) = 1 => contador_repeticiones = 1

C5_Witness ==
    /\ Len(llamadas) = 1
    /\ llamadas[1].fase = "ALTO"
    /\ op = "procesar_frame"

\* C6: after reset(), as after construction, the session state is: latch
\* clear, count 0, frame count 0, last phase BAJO, empty history, angle and
\* height 0, accumulators max 0 and min 180.
C6_ResetEstadoInicial ==
    op \in {"init", "reset"} =>
      sesion = <<FALSE, 0, 0, "BAJO", <<>>, 0, 0, 0, 180>>

\* reset() called right after a call that counted a repetition
C6_Witness ==
    /\ op = "reset"
    /\ ret.nueva
    /\ entrada = "completa"

\* the history agrees with the counter and numbers its records 1, 2, ...
HistorialAlDia(h, c) ==
    /\ Len(h) = c
    /\ \A i \in 1..Len(h) : h[i].repeticion = i

\* C7: the history has as many records as the counter says, the i-th record
\* has repeticion = i, and a procesar_frame call keeps the records present
\* and appends exactly one record when it counts and none otherwise.
C7_HistorialSoloCrece ==
    [][/\ HistorialAlDia(historial_repeticiones', contador_repeticiones')
       /\ op' = "procesar_frame" =>
            /\ Len(historial_repeticiones') =
                 Len(historial_repeticiones) + (IF ret'.nueva THEN 1 ELSE 0)
            /\ SubSeq(historial_repeticiones', 1, Len(historial_repeticiones))
                 = historial_repeticiones]_vars

C7_Witness ==
    /\ Len(historial_repeticiones) = 2
    /\ op = "procesar_frame"
    /\ ~ret.nueva

\* C8: every procesar_frame call returns a pair (nueva_repeticion, fase) and
\* raises nothing, whatever the pose result: absent, short or full with any
\* coordinates; for an absent pose the pair is (False, SIN_DETECCION).
C8_ProcesarFrameTotal ==
    op = "procesar_frame" =>
      /\ ~ret.excepcion
      /\ ret.nueva \in BOOLEAN
      /\ ret.fase \in Fases
      /\ entrada = "sin_pose" => (~ret.nueva /\ ret.fase = "SIN_DETECCION")

\* a full landmark list whose elbow coincides with the shoulder, after an
\* absent pose
C8_Witness ==
    /\ op = "procesar_frame"
    /\ entrada = "completa"
    /\ angulo_actual = 180
    /\ altura_actual = 50
    /\ Len(llamadas) >= 2
    /\ llamadas[Len(llamadas) - 1].fase = "SIN_DETECCION"

\* C9 (as claimed): with umbral_alto >= umbral_bajo the construction fails,
\* so no frame is classified or counted under such thresholds.
C9_UmbralesInvalidosRechazados ==
    umbral_alto >= umbral_bajo =>
      /\ contador_repeticiones = 0
      /\ \A i \in 1..Len(llamadas) :
           llamadas[i].fase \notin {"ALTO", "BAJO", "TRANSICION"}

\* the phase the engine gave to the full landmark list of the last call
FaseDeCompleta ==
    /\ op = "procesar_frame"
    /\ entrada = "completa"
    /\ umbral_alto < umbral_bajo

----------------------------------------------------------------------------
(* Properties of the classifier called on any pose result *)

\* the last call handed a pose result to the classifier and returned
LlamadaConPose ==
    op \in {"procesar_frame", "detectar_fase"} /\ ~ret.excepcion

\* the landmark list is the full list, with shoulders, elbows and wrists
TienePuntosClave(f) == f.pose /\ f.n >= MinLandmarksFase

\* C11: the classifier answers SIN_DETECCION exactly when the landmark set
\* is absent, lacks the shoulders, elbow and wrist, or is less visible than
\* the minimum confidence: a full set of low visibility is SIN_DETECCION and
\* a confident set with the keypoints never is
C11_SinDeteccionSiiInsuficiente ==
    LlamadaConPose =>
        /\ (~TienePuntosClave(frame)
              \/ Max(frame.v_izq, frame.v_der) < ConfianzaMinima)
             => ret.fase = "SIN_DETECCION"
        /\ (TienePuntosClave(frame)
              /\ Min(frame.v_izq, frame.v_der) >= ConfianzaMinima)
             => ret.fase # "SIN_DETECCION"

\* C12: detectar_fase on an absent, empty or short landmark list returns
\* SIN_DETECCION and leaves every field of the engine as it was
C12_SinLandmarksSinCambio ==
    [][(op' = "detectar_fase" /\ entrada' \in {"sin_pose", "corta"})
         => /\ ret' = Retorno(FALSE, "SIN_DETECCION")
            /\ sesion' = sesion]_vars

\* a short list handed to detectar_fase by an engine that has seen angles
C12_Witness ==
    /\ op = "detectar_fase"
    /\ entrada = "corta"
    /\ frame.n > 0
    /\ ret.fase = "SIN_DETECCION"
    /\ angulo_maximo_durante_repeticion > 0
    /\ altura_actual > 0

\* the pose result seen from its right side: landmarks 12, 14 and 16 in
\* the places of 11, 13 and 15
LadoDerecho(f) == [f EXCEPT !.l11 = f.l12, !.l13 = f.l14, !.l15 = f.l16]

\* C19: when the right landmarks are more visible than the left ones, the
\* height and the angle the classifier keeps are those of the right side
C19_LadoMasVisible ==
    (LlamadaConPose /\ entrada = "completa" /\ frame.v_der > frame.v_izq)
        => /\ angulo_actual = calcular_angulo_codo(LadoDerecho(frame))
           /\ altura_actual = frame.l12[2]

----------------------------------------------------------------------------
(* Properties of the statistics *)

\* the keys of the dictionary obtener_estadisticas returns
CamposEstadisticas ==
    {"repeticiones", "fase_actual", "angulo_actual", "altura_actual",
     "frames_procesados", "historial"}

\* C13: obtener_estadisticas can be called in every state, changes no
\* field of the engine, returns the six fields with repeticiones equal to
\* the length of historial, and no other call alters a returned dictionary
C13_EstadisticasSoloLectura ==
    [][/\ ENABLED ObtenerEstadisticas
       /\ op' = "obtener_estadisticas"
            => /\ sesion' = sesion
               /\ Len(stats') = 1
               /\ DOMAIN stats'[1] = CamposEstadisticas
               /\ stats'[1].repeticiones = Len(stats'[1].historial)
       /\ op' # "obtener_estadisticas" => stats' = stats]_vars

\* a dictionary returned after the first repetition, still as returned
\* after the second one was counted
C13_Witness ==
    /\ op = "procesar_frame"
    /\ Len(stats) = 1
    /\ stats[1].repeticiones = 1
    /\ Len(stats[1].historial) = 1
    /\ contador_repeticiones = 2

----------------------------------------------------------------------------
(* Properties of the frame counter and of the stored phase *)

\* C16: after each call frame_count is the number of frames passed since
\* reset, and every record's timestamp is the zero-based position of the
\* frame that counted it
C16_IndiceDeFrameAlineado ==
    /\ frame_count = Len(llamadas)
    /\ \A i \in 1..Len(historial_repeticiones) :
         /\ historial_repeticiones[i].timestamp + 1 \in 1..Len(llamadas)
         /\ llamadas[historial_repeticiones[i].timestamp + 1].nueva

\* C17: after each procesar_frame call ultima_fase is the phase the call
\* returned, SIN_DETECCION included
C17_UltimaFaseEsLaDevuelta ==
    (op = "procesar_frame" /\ ~ret.excepcion) => ultima_fase = ret.fase

----------------------------------------------------------------------------
(* Properties of the angle extremes of a repetition *)

\* the call of the session that counted repetition k
PosConteo(k) ==
    CHOOSE i \in 1..Len(llamadas) :
        /\ llamadas[i].nueva
        /\ Cardinality({j \in 1..i : llamadas[j].nueva}) = k

\* the angles of the detected frames after the frame that counted
\* repetition k - 1 up to and including the one that counted repetition k
Ventana(k) ==
    LET desde == IF k = 1 THEN 1 ELSE PosConteo(k - 1) + 1
    IN  {angulos[j] : j \in desde..PosConteo(k)} \ {SinAngulo}

MaxDe(S) == CHOOSE m \in S : \A x \in S : x <= m
MinDe(S) == CHOOSE m \in S : \A x \in S : x >= m

\* C18: the record of repetition k carries the maximum and the minimum
\* elbow angle of the detected frames of its window, and right after a
\* repetition is counted the accumulators are back at 0 and 180
C18_ExtremosPorVentana ==
    /\ \A k \in 1..Len(historial_repeticiones) :
         /\ historial_repeticiones[k].angulo_maximo = MaxDe(Ventana(k))
         /\ historial_repeticiones[k].angulo_minimo = MinDe(Ventana(k))
    /\ (op = "procesar_frame" /\ ret.nueva)
         => /\ angulo_maximo_durante_repeticion = 0
            /\ angulo_minimo_durante_repeticion = 180

\* two repetitions whose windows hold different angles, the second window
\* with more than one angle and with frames that reached no angle
C18_Witness ==
    /\ Len(historial_repeticiones) = 2
    /\ op = "procesar_frame"
    /\ ret.nueva
    /\ historial_repeticiones[1].angulo_maximo = 90
    /\ historial_repeticiones[2].angulo_maximo = 180
    /\ historial_repeticiones[2].angulo_minimo = 0
    /\ SinAngulo \in {angulos[j] : j \in 1..Len(angulos)}

----------------------------------------------------------------------------
(* Properties of the server *)

\* C14: the engine is in its initial state when the first frame of each
\* video is processed, and the repeticiones of every successful result is
\* the number of repetitions counted on the frames of that video
C14_VideoDesdeEstadoInicial ==
    \A r \in Peticiones :
        /\ (pet[r].pc = "frames" /\ pet[r].cuadros = 0)
             => sesion = EstadoReset
        /\ (pet[r].pc \in {"procesado", "respondida"} /\ pet[r].exito)
             => pet[r].repeticiones = pet[r].contadas

\* two videos processed one after the other, each with repetitions
C14_Witness ==
    /\ \A r \in {1, 2} :
         /\ pet[r].pc = "respondida"
         /\ pet[r].exito
    /\ pet[1].repeticiones = 2
    /\ pet[2].repeticiones = 1
    /\ pet[2].cuadros = 1

\* between reset and the read of the history for its response
EnSeccion(r) == pet[r].pc \in {"frames", "procesado"}

\* this step resets the engine for the request q or feeds it a frame of q
TocaMotor(q) ==
    /\ pet'[q] # pet[q]
    /\ \/ pet[q].pc = "guardado"
       \/ pet[q].pc = "frames" /\ pet'[q].pc = "frames"

\* C15: between the reset of procesar_video for a request and the read of
\* historial_repeticiones for its response, no other request resets the
\* engine or has a frame processed by it
C15_SinIntercalado ==
    [][\A r \in Peticiones, q \in Peticiones :
         (q # r /\ EnSeccion(r)) => ~TocaMotor(q)]_vars

\* a request in the middle of its video while another one waits for its
\* upload to be read
C15_Witness ==
    \E r \in Peticiones, q \in Peticiones :
        /\ pet[r].pc = "frames"
        /\ pet[r].cuadros >= 1
        /\ pet[q].pc = "leyendo"

\* C20: a POST to /api/v1/analizar with a file of a type that is not
\* allowed is answered 400, with no file written and the engine neither
\* reset nor fed
C20_TipoInvalidoRechazado ==
    \A r \in Peticiones :
        (/\ pet[r].pc = "respondida"
         /\ pet[r].camino = RutaDecorada
         /\ pet[r].ext \notin TiposPermitidos)
            => /\ pet[r].status = 400
               /\ ~pet[r].escrito
               /\ ~pet[r].reinicio
               /\ pet[r].cuadros = 0

----------------------------------------------------------------------------
(* Properties of the geometry methods *)

\* C21: calcular_altura_hombros returns the mean of the y of landmarks 11
\* and 12 when the list has at least 13 entries and 0.5 when it has fewer,
\* and always returns a height
C21_AlturaEsLaMedia ==
    op = "calcular_altura_hombros"
        => /\ frame.n >= 13 => 2 * valor = frame.l11[2] + frame.l12[2]
           /\ frame.n < 13 => valor = 100
           /\ valor \in 0..200

\* a list of exactly 13 entries whose shoulders are at different heights
C21_Witness ==
    /\ op = "calcular_altura_hombros"
    /\ frame.n = 13
    /\ frame.l11[2] = 30
    /\ frame.l12[2] = 70
    /\ valor = 50

\* C22: calcular_angulo_codo returns 180 when the list has fewer than 17
\* entries or the elbow is on the shoulder or on the wrist, and otherwise
\* an angle between 0 and 180; it never fails
C22_AnguloAcotado ==
    op = "calcular_angulo_codo"
        => /\ (frame.n < 17 \/ frame.l13 = frame.l11 \/ frame.l13 = frame.l15)
                => valor = 180
           /\ valor \in 0..180

\* a full list whose wrist is on the elbow while the shoulder is not
C22_Witness ==
    /\ op = "calcular_angulo_codo"
    /\ frame.n >= 17
    /\ frame.l13 = frame.l15
    /\ frame.l13 # frame.l11
    /\ valor = 180
----------------------------------------------------------------------------
(* Properties of the latch *)

\* C23: after a frame classified BAJO the latch is clear whatever it was,
\* and when the next frame is classified ALTO a repetition is counted on it
C23_BajoLiberaYArma ==
    [][/\ (op' = "procesar_frame" /\ ret'.fase = "BAJO")
            => ~en_posicion_alta'
       /\ (/\ op = "procesar_frame" /\ ret.fase = "BAJO"
           /\ op' = "procesar_frame" /\ ret'.fase = "ALTO")
            => /\ ret'.nueva
               /\ contador_repeticiones' = contador_repeticiones + 1]_vars

\* a latch set by a first repetition, kept through TRANSICION, cleared by
\* BAJO, and a second repetition counted on the ALTO frame right after
C23_Witness ==
    /\ Len(llamadas) = 4
    /\ llamadas[1].nueva
    /\ llamadas[2].fase = "TRANSICION"
    /\ llamadas[3].fase = "BAJO"
    /\ llamadas[4].nueva
    /\ contador_repeticiones = 2

\* C24: detectar_fase leaves every field of the session as it was
C24_DetectarFaseSinEfecto ==
    [][op' = "detectar_fase" => sesion' = sesion]_vars

\* C29: after a call that classifies the frame ALTO the latch is set, and
\* an ALTO frame that finds the latch clear is counted, also right after a
\* frame without detection
C29_AltoSiempreCuenta ==
    [][(op' = "procesar_frame" /\ ret'.fase = "ALTO")
         => /\ en_posicion_alta'
            /\ ~en_posicion_alta => ret'.nueva]_vars

\* C30: every record of the history has its minimum angle at most its
\* maximum angle, both between 0 and 180
C30_ExtremosOrdenados ==
    \A i \in 1..Len(historial_repeticiones) :
        /\ 0 <= historial_repeticiones[i].angulo_minimo
        /\ historial_repeticiones[i].angulo_minimo
             <= historial_repeticiones[i].angulo_maximo
        /\ historial_repeticiones[i].angulo_maximo <= 180

\* a repetition counted on the first frame after a reset, whose record
\* holds that frame's angle twice, and a later one with a wider window
C30_Witness ==
    /\ Len(historial_repeticiones) = 2
    /\ historial_repeticiones[1].angulo_minimo = 90
    /\ historial_repeticiones[1].angulo_maximo = 90
    /\ historial_repeticiones[2].angulo_minimo
         < historial_repeticiones[2].angulo_maximo
----------------------------------------------------------------------------
(* Properties of the resources of a request *)

\* C25: the upload of a request that passed the type and size checks is
\* gone from the upload directory when the request has finished, whether
\* procesar_video succeeded, returned a failure or raised, and a request
\* rejected by a check never wrote one
C25_SubidaBorrada ==
    \A r \in Peticiones :
        /\ pet[r].pc = "respondida" => r \notin disco
        /\ pet[r].status = 400 => ~pet[r].escrito

\* one request answered 500 after procesar_video raised and one answered
\* with a failure result, both after writing their upload
C25_Witness ==
    \E r \in Peticiones, q \in Peticiones :
        /\ pet[r].pc = "respondida" /\ pet[r].status = 500
        /\ pet[r].escrito
        /\ pet[q].pc = "respondida" /\ pet[q].status = 200
        /\ pet[q].escrito /\ ~pet[q].exito
        /\ disco = {}

\* procesar_video has returned to the request r
VideoDevuelto(r) ==
    \/ pet[r].pc = "procesado"
    \/ pet[r].pc = "respondida" /\ pet[r].status = 200

\* C26: when procesar_video opened the video, the capture and the writer
\* are released by the time it returns, at end of video or after an error
\* in the loop
C26_RecursosLiberados ==
    \A r \in Peticiones :
        (VideoDevuelto(r) /\ pet[r].cap # "sin_abrir")
            => /\ pet[r].cap = "liberado"
               /\ pet[r].writer = "liberado"

\* a video that failed in the loop after a frame, its resources released
C26_Witness ==
    \E r \in Peticiones :
        /\ pet[r].pc = "procesado"
        /\ ~pet[r].exito
        /\ pet[r].cuadros >= 1
        /\ pet[r].cap = "liberado"
        /\ pet[r].writer = "liberado"

\* C28: every response with a ResultadoAnalisis has as many entries in
\* historial_repeticiones as its repeticiones says, failures included
C28_HistorialCoincide ==
    \A r \in Peticiones :
        (pet[r].pc = "respondida" /\ pet[r].status = 200)
            => pet[r].historial = pet[r].repeticiones
----------------------------------------------------------------------------
(* Properties of the progress reports *)

\* C27: every value passed to callback_progreso lies between 0 and 100 and
\* computing it never makes the run fail, whatever frame count the
\* container reports
C27_ProgresoBienDefinido ==
    /\ \A i \in 1..Len(video.progresos) : video.progresos[i] \in 0..100
    /\ video.error = ""
====
